---------------------------- MODULE Spec2Model ----------------------------
(***************************************************************************)
(* A model of s3-mpu-rs: the streaming splitter (src/src/split.rs), the    *)
(* bounded-concurrency dispatcher (src/src/dispatch.rs) and the multipart  *)
(* upload orchestrator (src/src/lib.rs).  Each component has its own       *)
(* specification (SplitSpec, DispatchSpec, UploadSpec) over its own        *)
(* variables; the variables of the other components stay at their initial  *)
(* values.                                                                 *)
(***************************************************************************)
EXTENDS Integers, Sequences, FiniteSets, TLC

(***************************************************************************)
(* Bounds of the model.                                                    *)
(***************************************************************************)
\* longest script of byte-source responses the splitter is run on
MaxItems == 3
\* longest chunk the byte source yields to the splitter
MaxChunk == 3
\* largest part size (end of the range) the splitter is configured with
MaxPartSize == 4
\* number of items (tasks, errors, end-of-stream) the dispatcher's input gets
MaxArrivals == 4
\* largest admission limit the dispatcher is run with
MaxLimit == 2
\* number of chunks the byte source yields to multipart_upload
MaxReads == 3
\* number of chunks of the body given to into_byte_stream
MaxBodyLen == 2
\* number of bodies built from one into_byte_stream: the first and its clones
MaxReplays == 3
\* number of times one body is polled for data
MaxPolls == 4

(***************************************************************************)
(* Option and sequence helpers.                                            *)
(***************************************************************************)
None == [tag |-> "None"]
Some(x) == [tag |-> "Some", val |-> x]

Min(a, b) == IF a <= b THEN a ELSE b

SeqsUpTo(S, n) == UNION {[1..k -> S] : k \in 0..n}

RECURSIVE Flatten(_)
Flatten(ss) == IF ss = <<>> THEN <<>> ELSE Head(ss) \o Flatten(Tail(ss))

RECURSIVE SumLen(_)
SumLen(ss) == IF ss = <<>> THEN 0 ELSE Len(Head(ss)) + SumLen(Tail(ss))

(***************************************************************************)
(* Bytes (bytes crate): an immutable byte buffer; a chunk is the sequence  *)
(* of its byte values.  split_to(n) returns the first n bytes and keeps    *)
(* the rest; split_off(0) returns everything and keeps nothing.            *)
(***************************************************************************)
SplitToHead(b, n) == SubSeq(b, 1, n)
SplitToRest(b, n) == SubSeq(b, n + 1, Len(b))

(***************************************************************************)
(* Md5 (md5 crate), used through update / finalize / finalize_reset: a     *)
(* streaming digest.  The digest itself is outside the repository; it is   *)
(* modelled as an order-sensitive streaming checksum with the same         *)
(* interface: a state that absorbs bytes one at a time, and a finalization *)
(* that mixes in the number of bytes absorbed.                             *)
(***************************************************************************)
Md5New == [h |-> 7, n |-> 0]

RECURSIVE Md5Update(_, _)
Md5Update(st, bytes) ==
    IF bytes = <<>> THEN st
    ELSE Md5Update([h |-> (st.h * 31 + Head(bytes) + 1) % 65521,
                    n |-> st.n + 1], Tail(bytes))

Md5Finalize(st) == (st.h * 31 + st.n) % 65521

Md5Digest(bytes) == Md5Finalize(Md5Update(Md5New, bytes))

(***************************************************************************)
(* State.                                                                  *)
(***************************************************************************)
VARIABLES
    \* ---- splitter (split.rs) ----
    body,        \* Split.body: the responses the byte source still has to give
    srcBytes,    \* number of bytes the byte source has yielded so far
    bodyPolls,   \* number of times Split::poll_next has polled the byte source
    inner,       \* Split.inner: Option<Inner>
    yielded,     \* the items split() has yielded so far: Ok(Part) and Err (with
                 \* the number of bytes the source had yielded before it)
    lastPoll,    \* what the last call of Split::poll_next returned
    fed,         \* the chunks the byte source has yielded so far
    part_size,   \* the range split() was called with
    \* ---- dispatcher (dispatch.rs) ----
    limit,       \* Option<NonZeroUsize>: the admission limit
    queue,       \* the items the input stream has ready and not yet yielded
    arrived,     \* every item the input stream ever got, in arrival order
    is_done,     \* Fuse::is_done of the input stream
    futures,     \* Vec of the tasks in flight
    outputs,     \* Vec of the outputs of the tasks that resolved
    cell,        \* per task, the outcome set from outside (None: still pending)
    started,     \* the tasks that have been polled at least once
    plog,        \* what the last poll did: its pulls of the input, its task polls
    resolved,    \* the tasks that resolved while in flight, in the order
                 \* they resolved
    dresult,     \* what dispatch_concurrent has returned (Pending: not yet)
    \* ---- orchestrator (lib.rs) ----
    upc,         \* the await multipart_upload is suspended at
    nreads,      \* number of chunks the byte source has yielded
    srcOff,      \* number of bytes the byte source has yielded
    chunk,       \* the rest of the chunk being consumed (None between chunks)
    chunks,      \* Vec<Bytes>: the slices buffered for the next part
    size,        \* the length of `chunks`
    mpu,         \* Option<MultipartUpload>: upload_id, parts, part_number
    req,         \* the arguments of the upload() call being awaited
    calls,       \* every call made to the S3 client, in order, with its outcome
    failures,    \* every failure multipart_upload has observed, in order
    uresult,     \* what multipart_upload has returned (Pending: not yet)
    \* ---- replayable body (into_byte_stream.rs) ----
    arc_body,    \* the Arc<[Bytes]> the rebuild closure has captured
    bs           \* every body built by the closure: its B.1 and what its
                 \* polls have returned so far

splitVars == <<body, srcBytes, bodyPolls, inner, yielded, lastPoll, fed,
               part_size>>

dispVars == <<limit, queue, arrived, is_done, futures, outputs, cell, started,
              plog, resolved, dresult>>

upVars == <<upc, nreads, srcOff, chunk, chunks, size, mpu, req, calls, failures,
            uresult>>
bsVars == <<arc_body, bs>>

vars == <<splitVars, dispVars, upVars, bsVars>>

(***************************************************************************)
(* Results of polls and calls, and the state of a component that is not    *)
(* running: each specification below runs one component and leaves the     *)
(* other two in this state.                                                *)
(***************************************************************************)
Pending == [tag |-> "Pending"]
Ok(v) == [tag |-> "Ok", val |-> v]
Err(e) == [tag |-> "Err", e |-> e]

TaskIds == 1..MaxArrivals

SplitIdle ==
    /\ body = <<>>
    /\ srcBytes = 0
    /\ bodyPolls = 0
    /\ inner = None
    /\ yielded = <<>>
    /\ lastPoll = [tag |-> "Init"]
    /\ fed = <<>>
    /\ part_size = [start |-> 1, end |-> 1]

DispatchIdle ==
    /\ limit = None
    /\ queue = <<>>
    /\ arrived = <<>>
    /\ is_done = FALSE
    /\ futures = <<>>
    /\ outputs = <<>>
    /\ cell = [t \in TaskIds |-> None]
    /\ started = {}
    /\ plog = <<>>
    /\ resolved = <<>>
    /\ dresult = Pending

UploadIdle ==
    /\ upc = "idle"
    /\ nreads = 0
    /\ srcOff = 0
    /\ chunk = None
    /\ chunks = <<>>
    /\ size = 0
    /\ mpu = None
    /\ req = None
    /\ calls = <<>>
    /\ failures = <<>>
    /\ uresult = Pending

ByteStreamIdle ==
    /\ arc_body = <<>>
    /\ bs = <<>>

(***************************************************************************)
(* split.rs: Inner                                                         *)
(***************************************************************************)
InnerNew(range) ==
    [remaining |-> <<>>,
     part_size |-> range,
     part_body |-> <<>>,
     part_content_length |-> 0,
     part_content_md5 |-> Md5New,
     part_number |-> 0]

push_part(in, c) ==
    IF c # <<>>
    THEN [in EXCEPT !.part_content_length = @ + Len(c),
                    !.part_content_md5 = Md5Update(@, c),
                    !.part_body = Append(@, c)]
    ELSE in

\* push without folding the previous remainder into the part
push_drop(in, c) == [in EXCEPT !.remaining = c]

push(in, c) ==
    LET old == in.remaining
    IN  push_part([in EXCEPT !.remaining = c], old)

\* the condition of pop with a strict comparison
pop_ready_strict(in) ==
    in.part_content_length + Len(in.remaining) > in.part_size.start

\* The condition of Inner::pop: enough bytes are buffered for a part.
pop_ready(in) ==
    in.part_content_length + Len(in.remaining) >= in.part_size.start

\* pop taking the whole remainder, without the cap at the end of the range
pop_take_uncapped(in) == Len(in.remaining)

\* The number of bytes Inner::pop takes from `remaining`.
pop_take(in) ==
    Min(Len(in.remaining), in.part_size.end - in.part_content_length)

\* pop finalizing the digest without resetting the accumulator
pop_without_reset(in) ==
    IF pop_ready(in)
    THEN LET n == pop_take(in)
             a == push_part([in EXCEPT !.remaining = SplitToRest(@, n)],
                            SplitToHead(in.remaining, n))
             number == a.part_number + 1
         IN  [part |-> Some([body |-> a.part_body,
                             content_length |-> a.part_content_length,
                             content_md5 |-> Md5Finalize(a.part_content_md5),
                             part_number |-> number]),
              inner |-> [a EXCEPT !.part_number = number,
                                  !.part_body = <<>>,
                                  !.part_content_length = 0]]
    ELSE [part |-> None, inner |-> in]

\* Inner::pop: [part |-> Option<Part>, inner |-> the Inner afterwards]
pop(in) ==
    IF pop_ready(in)
    THEN LET n == pop_take(in)
             a == push_part([in EXCEPT !.remaining = SplitToRest(@, n)],
                            SplitToHead(in.remaining, n))
             number == a.part_number + 1
         IN  [part |-> Some([body |-> a.part_body,
                             content_length |-> a.part_content_length,
                             content_md5 |-> Md5Finalize(a.part_content_md5),
                             part_number |-> number]),
              inner |-> [a EXCEPT !.part_number = number,
                                  !.part_body = <<>>,
                                  !.part_content_length = 0,
                                  !.part_content_md5 = Md5New]]
    ELSE [part |-> None, inner |-> in]

\* finish numbering the last part with the number of the previous one
finish_same_number(in) ==
    LET a == push_part([in EXCEPT !.remaining = <<>>], in.remaining)
    IN  IF a.part_body = <<>>
        THEN None
        ELSE Some([body |-> a.part_body,
                   content_length |-> a.part_content_length,
                   content_md5 |-> Md5Finalize(a.part_content_md5),
                   part_number |-> a.part_number])

\* Inner::finish: Option<Part>
finish(in) ==
    LET a == push_part([in EXCEPT !.remaining = <<>>], in.remaining)
    IN  IF a.part_body = <<>>
        THEN None
        ELSE Some([body |-> a.part_body,
                   content_length |-> a.part_content_length,
                   content_md5 |-> Md5Finalize(a.part_content_md5),
                   part_number |-> a.part_number + 1])

(***************************************************************************)
(* The byte source B: a script of responses to successive polls.  A chunk  *)
(* of length n holds the next n bytes of the object; byte k of the object  *)
(* has the value k, so that every byte is distinguishable.  A source whose *)
(* script has run out answers end-of-stream.                               *)
(***************************************************************************)
SrcChunk(n) == [tag |-> "Chunk", len |-> n]
SrcErr == [tag |-> "Err"]
SrcEnd == [tag |-> "End"]
SrcPending == [tag |-> "Pending"]

SrcItems == {SrcChunk(n) : n \in 0..MaxChunk} \cup {SrcErr, SrcEnd, SrcPending}

ChunkBytes(pos, n) == [i \in 1..n |-> pos + i]

(***************************************************************************)
(* dispatch.rs: dispatch_concurrent.                                       *)
(*                                                                         *)
(* The input stream is the one of the repository's test: a queue that is   *)
(* filled from outside; polling it pops the front item, and an empty queue *)
(* answers Pending.  A task is a future that resolves once its cell has    *)
(* been set from outside, to the output of the task or to an error.        *)
(***************************************************************************)
ItemTask(t) == [tag |-> "Task", id |-> t]
ItemErr(k) == [tag |-> "Err", e |-> <<"stream", k>>]
ItemEnd == [tag |-> "End"]

\* the output of task t, and the error it fails with
TaskOutput(t) == 100 + t
TaskError(t) == <<"task", t>>

\* the admission check that ignores the limit
has_slot_unbounded(lim, n) == TRUE

\* the admission check with the comparison the wrong way round by one
has_slot_inclusive(lim, n) == lim = None \/ lim.val >= n

\* limit.map_or(true, |limit| limit.get() > futures.len())
has_slot(lim, n) == lim = None \/ lim.val > n

\* removing the last element whatever the index
swap_remove_last(v, i) == SubSeq(v, 1, Len(v) - 1)

\* Vec::swap_remove(i): the last element takes the place of element i
swap_remove(v, i) ==
    IF i = Len(v)
    THEN SubSeq(v, 1, Len(v) - 1)
    ELSE [k \in 1..(Len(v) - 1) |-> IF k = i THEN v[Len(v)] ELSE v[k]]

\* a completion check that never succeeds
is_complete_never(done, fs) == FALSE

\* completing as soon as nothing is in flight
is_complete_ignoring_stream(done, fs) == fs = <<>>

\* stream.is_done() && futures.is_empty()
is_complete(done, fs) == done /\ fs = <<>>

\* Fuse::poll_next on the input: [d |-> the state afterwards, got |-> the item,
\* or Pending, or End].  A fused stream that is done is not polled again.
stream_poll(d) ==
    IF d.is_done THEN [d |-> d, got |-> ItemEnd]
    ELSE IF d.queue = <<>>
    THEN [d |-> [d EXCEPT !.plog = Append(@, [ev |-> "pull",
                                               inflight |-> Len(d.futures),
                                               got |-> Pending])],
          got |-> Pending]
    ELSE LET item == Head(d.queue)
         IN  [d |-> [d EXCEPT !.queue = Tail(@),
                              !.is_done = (item.tag = "End"),
                              !.plog = Append(@, [ev |-> "pull",
                                                  inflight |-> Len(d.futures),
                                                  got |-> item])],
              got |-> item]

\* the while loop of lines 21-27; an error of the input leaves the closure
RECURSIVE admit(_)
admit(d) ==
    IF has_slot(d.limit, Len(d.futures))
    THEN LET r == stream_poll(d)
         IN  CASE r.got.tag = "Task" ->
                    admit([r.d EXCEPT !.futures = Append(@, r.got.id)])
               [] r.got.tag = "Err" -> [r.d EXCEPT !.ret = Err(r.got.e)]
               [] OTHER -> r.d
    ELSE d

\* the loop over the tasks that goes on after a task has failed, and reports
\* the last failure
RECURSIVE poll_futures_keep_going(_, _)
poll_futures_keep_going(d, i) ==
    IF i <= Len(d.futures)
    THEN LET t == d.futures[i]
             c == d.cell[t]
             e == [d EXCEPT !.started = @ \cup {t},
                            !.plog = Append(@, [ev |-> "poll", task |-> t,
                                                got |-> IF c = None THEN Pending
                                                        ELSE c.val])]
         IN  CASE c = None -> poll_futures_keep_going(e, i + 1)
               [] c # None /\ c.val.tag = "Err" ->
                    poll_futures_keep_going([e EXCEPT !.ret = Err(c.val.e)], i + 1)
               [] OTHER ->
                    poll_futures_keep_going(
                        [e EXCEPT !.futures = swap_remove(@, i),
                                  !.outputs = Append(@, c.val.val)], i)
    ELSE d

\* the loop over the tasks that puts each output in front of the list
RECURSIVE poll_futures_prepend(_, _)
poll_futures_prepend(d, i) ==
    IF i <= Len(d.futures)
    THEN LET t == d.futures[i]
             c == d.cell[t]
             e == [d EXCEPT !.started = @ \cup {t},
                            !.plog = Append(@, [ev |-> "poll", task |-> t,
                                                got |-> IF c = None THEN Pending
                                                        ELSE c.val])]
         IN  CASE c = None -> poll_futures_prepend(e, i + 1)
               [] c # None /\ c.val.tag = "Err" -> [e EXCEPT !.ret = Err(c.val.e)]
               [] OTHER ->
                    poll_futures_prepend(
                        [e EXCEPT !.futures = swap_remove(@, i),
                                  !.outputs = <<c.val.val>> \o @], i)
    ELSE d

\* the while loop of lines 31-39; an error of a task leaves the closure
RECURSIVE poll_futures(_, _)
poll_futures(d, i) ==
    IF i <= Len(d.futures)
    THEN LET t == d.futures[i]
             c == d.cell[t]
             e == [d EXCEPT !.started = @ \cup {t},
                            !.plog = Append(@, [ev |-> "poll", task |-> t,
                                                got |-> IF c = None THEN Pending
                                                        ELSE c.val])]
         IN  CASE c = None -> poll_futures(e, i + 1)
               [] c # None /\ c.val.tag = "Err" -> [e EXCEPT !.ret = Err(c.val.e)]
               [] OTHER ->
                    poll_futures([e EXCEPT !.futures = swap_remove(@, i),
                                           !.outputs = Append(@, c.val.val)], i)
    ELSE d

\* a closure that makes one pass and does not go round the loop again
poll_fn_single_pass(d) ==
    LET d1 == admit(d)
    IN  IF d1.ret # Pending THEN d1
        ELSE LET d2 == poll_futures(d1, 1)
             IN  IF d2.ret # Pending THEN d2
                 ELSE IF is_complete(d2.is_done, d2.futures)
                 THEN [d2 EXCEPT !.ret = Ok(d2.outputs)]
                 ELSE d2

\* the closure given to poll_fn (lines 20-48): one poll of dispatch_concurrent
RECURSIVE poll_fn(_)
poll_fn(d) ==
    LET d1 == admit(d)
    IN  IF d1.ret # Pending THEN d1
        ELSE LET a == Len(d1.futures)
                 d2 == poll_futures(d1, 1)
                 b == Len(d2.futures)
             IN  IF d2.ret # Pending THEN d2
                 ELSE IF is_complete(d2.is_done, d2.futures)
                 THEN [d2 EXCEPT !.ret = Ok(d2.outputs)]
                 ELSE IF a = b THEN d2
                 ELSE poll_fn(d2)

\* The executor polls the future of dispatch_concurrent (lines 20-51).  A
\* future that has returned is not polled again.
Poll ==
    /\ dresult = Pending
    /\ LET r == poll_fn([limit |-> limit, queue |-> queue, is_done |-> is_done,
                         futures |-> futures, outputs |-> outputs, cell |-> cell,
                         started |-> started, plog |-> <<>>, ret |-> Pending])
       IN  /\ queue' = r.queue
           /\ is_done' = r.is_done
           /\ futures' = r.futures
           /\ outputs' = r.outputs
           /\ started' = r.started
           /\ plog' = r.plog
           /\ dresult' = r.ret
    /\ UNCHANGED <<limit, arrived, cell, resolved, splitVars, upVars, bsVars>>

\* The input gets one more item ready: the next task, an error, or its end.
Arrive ==
    /\ Len(arrived) < MaxArrivals
    /\ \E item \in {ItemTask(Len(SelectSeq(arrived, LAMBDA x : x.tag = "Task")) + 1),
                    ItemErr(Len(arrived) + 1), ItemEnd} :
          /\ queue' = Append(queue, item)
          /\ arrived' = Append(arrived, item)
    /\ UNCHANGED <<limit, is_done, futures, outputs, cell, started, plog, resolved,
                   dresult, splitVars, upVars, bsVars>>

\* A task that exists resolves, with its output or with its error.
Resolve ==
    /\ \E t \in TaskIds :
          /\ \E k \in 1..Len(arrived) : arrived[k] = ItemTask(t)
          /\ cell[t] = None
          /\ \E outcome \in {Ok(TaskOutput(t)), Err(TaskError(t))} :
                cell' = [cell EXCEPT ![t] = Some(outcome)]
          /\ resolved' = IF \E i \in 1..Len(futures) : futures[i] = t
                          THEN Append(resolved, t)
                          ELSE resolved
    /\ UNCHANGED <<limit, queue, arrived, is_done, futures, outputs, started, plog,
                   dresult, splitVars, upVars, bsVars>>

DispatchInit ==
    /\ limit \in {None} \cup {Some(l) : l \in 1..MaxLimit}
    /\ queue = <<>>
    /\ arrived = <<>>
    /\ is_done = FALSE
    /\ futures = <<>>
    /\ outputs = <<>>
    /\ cell = [t \in TaskIds |-> None]
    /\ started = {}
    /\ plog = <<>>
    /\ resolved = <<>>
    /\ dresult = Pending
    /\ SplitIdle
    /\ UploadIdle
    /\ ByteStreamIdle

DispatchNext == Poll \/ Arrive \/ Resolve

DispatchSpec == DispatchInit /\ [][DispatchNext]_vars

\* A poll would make progress: the dispatcher has not returned, and a poll
\* would pull an item of the input, collect a resolved task or return.  These
\* are the states in which the waker has fired, or in which the first poll
\* is due and has something to do.  What a poll records of itself (plog,
\* started) does not count: a poll that only polls pending tasks again makes
\* no progress.
PollActs ==
    /\ dresult = Pending
    /\ LET r == poll_fn([limit |-> limit, queue |-> queue, is_done |-> is_done,
                         futures |-> futures, outputs |-> outputs, cell |-> cell,
                         started |-> started, plog |-> <<>>, ret |-> Pending])
       IN  <<r.queue, r.is_done, r.futures, r.outputs, r.ret>>
              # <<queue, is_done, futures, outputs, dresult>>

\* The dispatcher under an executor that polls it again after each event that
\* wakes it, with tasks that do resolve.  The first fairness condition is
\* weak fairness of the polls that make progress, with the enabling
\* condition of such a poll written as PollActs; the executor owes no poll
\* when PollActs is false.
DispatchLiveSpec ==
    /\ DispatchInit
    /\ [][DispatchNext]_vars
    /\ ([]<>(~PollActs) \/ []<><<PollActs /\ Poll>>_vars)
    /\ WF_vars(Resolve)

(***************************************************************************)
(* lib.rs: multipart_upload and MultipartUpload.                           *)
(*                                                                         *)
(* The orchestrator never looks into the bytes: a Bytes is modelled as the *)
(* view it is, the offset of its first byte in the object and its length.  *)
(* Every await is one step: the call to the S3 client or the read of the   *)
(* byte source, its outcome, and the code up to the next await.            *)
(***************************************************************************)
MIN_PART_SIZE == 5 * (2 ^ 20)
MAX_PART_SIZE == MIN_PART_SIZE * 2

Slice(off, len) == [off |-> off, len |-> len]

\* the lengths of the chunks the byte source may yield
ChunkLens == {0, 1, MIN_PART_SIZE - 1, MIN_PART_SIZE, MAX_PART_SIZE,
              MAX_PART_SIZE + 1}

UploadIds == {"id-a", "id-b"}

\* the e_tag the store answers an upload_part with
ETag(part_number, content_length) == <<"etag", part_number, content_length>>

CreateError == <<"create">>
SourceError == <<"source">>
UploadPartError(n) == <<"upload_part", n>>
CompleteError == <<"complete">>

CallsOf(op) == SelectSeq(calls, LAMBDA c : c.op = op)

\* multipart_upload is called: nothing has run yet (line 28)
UploadInit ==
    /\ upc = "create"
    /\ nreads = 0
    /\ srcOff = 0
    /\ chunk = None
    /\ chunks = <<>>
    /\ size = 0
    /\ mpu = None
    /\ req = None
    /\ calls = <<>>
    /\ failures = <<>>
    /\ uresult = Pending
    /\ SplitIdle
    /\ DispatchIdle
    /\ ByteStreamIdle

\* `?` on a failure: multipart_upload returns the error
Return(e) ==
    /\ uresult' = Err(e)
    /\ failures' = Append(failures, e)
    /\ upc' = "done"

\* a create() whose failure is handled like every other one, by an abort
CreateAbortingOnFailure ==
    /\ upc = "create"
    /\ \/ \E id \in UploadIds :
             /\ calls' = Append(calls, [op |-> "create", ok |-> TRUE,
                                        upload_id |-> id])
             /\ mpu' = Some([upload_id |-> id, parts |-> <<>>, part_number |-> 1])
             /\ upc' = "read"
             /\ UNCHANGED <<uresult, failures>>
       \/ /\ calls' = calls \o <<[op |-> "create", ok |-> FALSE],
                                 [op |-> "abort", ok |-> TRUE, upload_id |-> ""]>>
          /\ Return(CreateError)
          /\ UNCHANGED mpu
    /\ UNCHANGED <<nreads, srcOff, chunk, chunks, size, req, splitVars, dispVars, bsVars>>

\* MultipartUpload::create (lines 72-94), awaited at line 30
Create ==
    /\ upc = "create"
    /\ \/ \E id \in UploadIds :
             /\ calls' = Append(calls, [op |-> "create", ok |-> TRUE,
                                        upload_id |-> id])
             /\ mpu' = Some([upload_id |-> id, parts |-> <<>>, part_number |-> 1])
             /\ upc' = "read"
             /\ UNCHANGED <<uresult, failures>>
       \/ /\ calls' = Append(calls, [op |-> "create", ok |-> FALSE])
          /\ Return(CreateError)
          /\ UNCHANGED mpu
    /\ UNCHANGED <<nreads, srcOff, chunk, chunks, size, req, splitVars, dispVars, bsVars>>

\* The inner while loop (lines 36-51) from its condition, with `c` the rest of
\* the chunk: up to the next upload() call, or to the end of the loop body.
inner_loop(c, cs, sz) ==
    IF sz + c.len >= MIN_PART_SIZE
    THEN LET len == Min(c.len, MAX_PART_SIZE - sz)
         IN  [pc |-> "upload",
              req |-> Some([body |-> Append(cs, Slice(c.off, len)),
                            content_length |-> sz + len,
                            last |-> FALSE]),
              chunk |-> Some(Slice(c.off + len, c.len - len)),
              chunks |-> <<>>,
              size |-> 0]
    ELSE [pc |-> "read",
          req |-> None,
          chunk |-> None,
          chunks |-> IF c.len # 0 THEN Append(cs, c) ELSE cs,
          size |-> IF c.len # 0 THEN sz + c.len ELSE sz]

Continue(r) ==
    /\ upc' = r.pc
    /\ req' = r.req
    /\ chunk' = r.chunk
    /\ chunks' = r.chunks
    /\ size' = r.size

\* body.next().await (line 34): a chunk, an error, or the end of the source
ReadBody ==
    /\ upc = "read"
    /\ \/ \E len \in ChunkLens :
             /\ nreads < MaxReads
             /\ nreads' = nreads + 1
             /\ srcOff' = srcOff + len
             /\ Continue(inner_loop(Slice(srcOff, len), chunks, size))
             /\ UNCHANGED <<uresult, failures>>
       \/ /\ Return(SourceError)
          /\ UNCHANGED <<nreads, srcOff, chunk, chunks, size, req>>
       \/ /\ req' = Some([body |-> chunks, content_length |-> size, last |-> TRUE])
          /\ upc' = "upload"
          /\ chunks' = <<>>
          /\ UNCHANGED <<nreads, srcOff, chunk, size, uresult, failures>>
    /\ UNCHANGED <<mpu, calls, splitVars, dispVars, bsVars>>

\* an upload() whose failure is not returned: the loop goes on
UploadPartSwallowingError ==
    /\ upc = "upload"
    /\ LET m == mpu.val
           call == [op |-> "upload_part", upload_id |-> m.upload_id,
                    part_number |-> m.part_number,
                    content_length |-> req.val.content_length,
                    body |-> req.val.body]
       IN  \/ /\ calls' = Append(calls, call @@ [ok |-> TRUE])
              /\ mpu' = Some([m EXCEPT
                     !.parts = Append(@, [e_tag |-> ETag(m.part_number,
                                                         req.val.content_length),
                                          part_number |-> m.part_number]),
                     !.part_number = @ + 1])
              /\ IF req.val.last
                 THEN /\ upc' = "complete"
                      /\ req' = None
                      /\ UNCHANGED <<chunk, chunks, size>>
                 ELSE Continue(inner_loop(chunk.val, chunks, size))
              /\ UNCHANGED <<uresult, failures>>
           \/ /\ calls' = Append(calls, call @@ [ok |-> FALSE])
              /\ failures' = Append(failures, UploadPartError(m.part_number))
              /\ IF req.val.last
                 THEN /\ upc' = "complete"
                      /\ req' = None
                      /\ UNCHANGED <<chunk, chunks, size>>
                 ELSE Continue(inner_loop(chunk.val, chunks, size))
              /\ UNCHANGED <<mpu, uresult>>
    /\ UNCHANGED <<nreads, srcOff, splitVars, dispVars, bsVars>>

\* an upload() that does not advance part_number
UploadPartSameNumber ==
    /\ upc = "upload"
    /\ LET m == mpu.val
           call == [op |-> "upload_part", upload_id |-> m.upload_id,
                    part_number |-> m.part_number,
                    content_length |-> req.val.content_length,
                    body |-> req.val.body]
       IN  \/ /\ calls' = Append(calls, call @@ [ok |-> TRUE])
              /\ mpu' = Some([m EXCEPT
                     !.parts = Append(@, [e_tag |-> ETag(m.part_number,
                                                         req.val.content_length),
                                          part_number |-> m.part_number])])
              /\ IF req.val.last
                 THEN /\ upc' = "complete"
                      /\ req' = None
                      /\ UNCHANGED <<chunk, chunks, size>>
                 ELSE Continue(inner_loop(chunk.val, chunks, size))
              /\ UNCHANGED <<uresult, failures>>
           \/ /\ calls' = Append(calls, call @@ [ok |-> FALSE])
              /\ Return(UploadPartError(m.part_number))
              /\ UNCHANGED <<mpu, req, chunk, chunks, size>>
    /\ UNCHANGED <<nreads, srcOff, splitVars, dispVars, bsVars>>

\* MultipartUpload::upload (lines 96-123), awaited at lines 40-45 and 53
UploadPart ==
    /\ upc = "upload"
    /\ LET m == mpu.val
           call == [op |-> "upload_part", upload_id |-> m.upload_id,
                    part_number |-> m.part_number,
                    content_length |-> req.val.content_length,
                    body |-> req.val.body]
       IN  \/ /\ calls' = Append(calls, call @@ [ok |-> TRUE])
              /\ mpu' = Some([m EXCEPT
                     !.parts = Append(@, [e_tag |-> ETag(m.part_number,
                                                         req.val.content_length),
                                          part_number |-> m.part_number]),
                     !.part_number = @ + 1])
              /\ IF req.val.last
                 THEN /\ upc' = "complete"
                      /\ req' = None
                      /\ UNCHANGED <<chunk, chunks, size>>
                 ELSE Continue(inner_loop(chunk.val, chunks, size))
              /\ UNCHANGED <<uresult, failures>>
           \/ /\ calls' = Append(calls, call @@ [ok |-> FALSE])
              /\ Return(UploadPartError(m.part_number))
              /\ UNCHANGED <<mpu, req, chunk, chunks, size>>
    /\ UNCHANGED <<nreads, srcOff, splitVars, dispVars, bsVars>>

\* a complete() that is called again when it has failed
CompleteRetrying ==
    /\ upc = "complete"
    /\ LET m == mpu.val
           call == [op |-> "complete", upload_id |-> m.upload_id,
                    parts |-> m.parts]
       IN  \/ /\ calls' = Append(calls, call @@ [ok |-> TRUE])
              /\ uresult' = Ok(<<>>)
              /\ upc' = "done"
              /\ mpu' = None
              /\ UNCHANGED failures
           \/ /\ Len(CallsOf("complete")) < 2
              /\ calls' = Append(calls, call @@ [ok |-> FALSE])
              /\ UNCHANGED <<uresult, upc, mpu, failures>>
    /\ UNCHANGED <<nreads, srcOff, chunk, chunks, size, req, splitVars, dispVars, bsVars>>

\* MultipartUpload::complete (lines 125-138), awaited at line 55
Complete ==
    /\ upc = "complete"
    /\ LET m == mpu.val
           call == [op |-> "complete", upload_id |-> m.upload_id,
                    parts |-> m.parts]
       IN  \/ /\ calls' = Append(calls, call @@ [ok |-> TRUE])
              /\ uresult' = Ok(<<>>)
              /\ upc' = "done"
              /\ UNCHANGED failures
           \/ /\ calls' = Append(calls, call @@ [ok |-> FALSE])
              /\ Return(CompleteError)
    /\ mpu' = None
    /\ UNCHANGED <<nreads, srcOff, chunk, chunks, size, req, splitVars, dispVars, bsVars>>

UploadNext == Create \/ ReadBody \/ UploadPart \/ Complete

UploadSpec == UploadInit /\ [][UploadNext]_vars

(***************************************************************************)
(* split.rs: Split::poll_next.  The loop runs on a record of the fields it *)
(* touches and returns that record with the result of the call in `ret`.   *)
(***************************************************************************)
RECURSIVE poll_next_loop(_)
poll_next_loop(s) ==
    LET p == pop(s.inner)
    IN  IF p.part # None
        THEN [s EXCEPT !.inner = p.inner,
                       !.ret = [tag |-> "Part", part |-> p.part.val]]
        ELSE LET item == IF s.body = <<>> THEN SrcEnd ELSE Head(s.body)
                 rest == IF s.body = <<>> THEN <<>> ELSE Tail(s.body)
                 t == [s EXCEPT !.body = rest, !.bodyPolls = @ + 1]
             IN  CASE item.tag = "Chunk" ->
                        LET c == ChunkBytes(s.srcBytes, item.len)
                        IN  poll_next_loop(
                                [t EXCEPT !.inner = push(s.inner, c),
                                          !.srcBytes = @ + item.len,
                                          !.fed = Append(@, c)])
                   [] item.tag = "Err" ->
                        [t EXCEPT !.ret = [tag |-> "Err", fedBytes |-> s.srcBytes]]
                   [] item.tag = "End" ->
                        LET f == finish(s.inner)
                        IN  [t EXCEPT !.taken = TRUE,
                                      !.ret = IF f = None
                                              THEN [tag |-> "None"]
                                              ELSE [tag |-> "Part", part |-> f.val]]
                   [] OTHER ->
                        [t EXCEPT !.ret = [tag |-> "Pending"]]

\* a stream that starts over when it is polled after its end
poll_next_restarting ==
    IF inner # None
    THEN LET r == poll_next_loop([inner |-> inner.val, body |-> body,
                                  srcBytes |-> srcBytes, bodyPolls |-> bodyPolls,
                                  fed |-> fed, taken |-> FALSE,
                                  ret |-> [tag |-> "Pending"]])
         IN  /\ inner' = IF r.taken THEN None ELSE Some(r.inner)
             /\ body' = r.body
             /\ srcBytes' = r.srcBytes
             /\ bodyPolls' = r.bodyPolls
             /\ fed' = r.fed
             /\ lastPoll' = r.ret
             /\ yielded' = IF r.ret.tag \in {"Part", "Err"}
                           THEN Append(yielded, r.ret)
                           ELSE yielded
    ELSE /\ inner' = Some(InnerNew(part_size))
         /\ lastPoll' = [tag |-> "Pending"]
         /\ UNCHANGED <<body, srcBytes, bodyPolls, fed, yielded>>

\* Split::poll_next (lines 42-62)
poll_next ==
    IF inner # None
    THEN LET r == poll_next_loop([inner |-> inner.val, body |-> body,
                                  srcBytes |-> srcBytes, bodyPolls |-> bodyPolls,
                                  fed |-> fed, taken |-> FALSE,
                                  ret |-> [tag |-> "Pending"]])
         IN  /\ inner' = IF r.taken THEN None ELSE Some(r.inner)
             /\ body' = r.body
             /\ srcBytes' = r.srcBytes
             /\ bodyPolls' = r.bodyPolls
             /\ fed' = r.fed
             /\ lastPoll' = r.ret
             /\ yielded' = IF r.ret.tag \in {"Part", "Err"}
                           THEN Append(yielded, r.ret)
                           ELSE yielded
    ELSE /\ lastPoll' = [tag |-> "None"]
         /\ UNCHANGED <<inner, body, srcBytes, bodyPolls, fed, yielded>>

\* split(): the stream is built over a byte source and a part-size range.
SplitInit ==
    /\ body \in SeqsUpTo(SrcItems, MaxItems)
    /\ \E lo \in 1..MaxPartSize : \E hi \in lo..MaxPartSize :
          /\ part_size = [start |-> lo, end |-> hi]
          /\ inner = Some(InnerNew(part_size))
    /\ srcBytes = 0
    /\ bodyPolls = 0
    /\ yielded = <<>>
    /\ lastPoll = [tag |-> "Init"]
    /\ fed = <<>>
    /\ DispatchIdle
    /\ UploadIdle
    /\ ByteStreamIdle

\* The consumer of split() polls the stream once.
PollNext == poll_next /\ UNCHANGED <<part_size, dispVars, upVars, bsVars>>

SplitNext == PollNext

SplitSpec == SplitInit /\ [][SplitNext]_vars

(***************************************************************************)
(* into_byte_stream.rs: the replayable body.                               *)
(*                                                                         *)
(* into_byte_stream moves the chunks into an Arc and hands SdkBody a       *)
(* closure that builds a body B(arc, 0) over them.  SdkBody::retryable     *)
(* calls the closure once for the body it returns and keeps it for         *)
(* try_clone, which calls it again.  B.1 is a usize: it cannot wrap within *)
(* MaxPolls polls.                                                         *)
(***************************************************************************)
\* the chunks a body is made of: the two of the repository's test and an
\* empty one
BodyChunks == {<<0, 1, 2>>, <<3, 4>>, <<>>}

\* <[Bytes]>::get(i), i counted from 0
get(v, i) == IF i < Len(v) THEN Some(v[i + 1]) ELSE None

\* a closure that starts the new body where the first body has got to
rebuild_shared_cursor(bodies) ==
    [cursor |-> IF bodies = <<>> THEN 0 ELSE bodies[1].cursor, data |-> <<>>]

\* the closure of lines 38-40: B(body.clone(), 0).  `data` is the record of
\* what the polls of the body have returned.
rebuild(bodies) == [cursor |-> 0, data |-> <<>>]

\* B::poll_data (lines 19-27): Ready(None) or Ready(Some(Ok(bytes)))
poll_data(this) ==
    LET bytes == get(arc_body, this.cursor)
    IN  [this |-> [this EXCEPT !.cursor = @ + 1],
         ret |-> IF bytes = None THEN None ELSE Some(Ok(bytes.val))]

\* into_byte_stream(body): the Arc and the first body
ByteStreamInit ==
    /\ arc_body \in SeqsUpTo(BodyChunks, MaxBodyLen)
    /\ bs = <<rebuild(<<>>)>>
    /\ SplitIdle
    /\ DispatchIdle
    /\ UploadIdle

\* SdkBody::try_clone on any of the bodies
TryClone ==
    /\ Len(bs) < MaxReplays
    /\ bs' = Append(bs, rebuild(bs))
    /\ UNCHANGED <<arc_body, splitVars, dispVars, upVars>>

\* one of the bodies is polled for data
PollData ==
    /\ \E r \in 1..Len(bs) :
          /\ bs[r].cursor < MaxPolls
          /\ LET p == poll_data(bs[r])
             IN  bs' = [bs EXCEPT ![r] = [p.this EXCEPT !.data = Append(@, p.ret)]]
    /\ UNCHANGED <<arc_body, splitVars, dispVars, upVars>>

ByteStreamNext == TryClone \/ PollData

ByteStreamSpec == ByteStreamInit /\ [][ByteStreamNext]_vars


(***************************************************************************)
(* Properties of the splitter, checked under SplitSpec.                    *)
(***************************************************************************)
IsPart(r) == r.tag = "Part"
IsErr(r) == r.tag = "Err"

\* the Parts split() has emitted, in emission order
EmittedParts == [i \in 1..Len(SelectSeq(yielded, IsPart)) |->
                    SelectSeq(yielded, IsPart)[i].part]

PartBodies == [i \in 1..Len(EmittedParts) |-> Flatten(EmittedParts[i].body)]

SplitErred == SelectSeq(yielded, IsErr) # <<>>

\* the byte source has ended and split() has taken its Inner
SplitFinished == inner = None

\* C1: when the byte source has ended without error, the bodies of the emitted
\* Parts, concatenated in emission order, are exactly the concatenation of the
\* chunks the source yielded; before that, they are a prefix of it and the
\* rest is what the splitter still buffers.
C1_RoundTrip ==
    /\ (SplitFinished /\ ~SplitErred) => Flatten(PartBodies) = Flatten(fed)
    /\ ~SplitFinished =>
          Flatten(PartBodies) \o Flatten(inner.val.part_body) \o inner.val.remaining
              = Flatten(fed)

\* a finished run without error over chunks of several sizes, one of them
\* empty, that gave at least two parts, one of them made of two slices
C1_Witness ==
    /\ SplitFinished /\ ~SplitErred
    /\ Len(EmittedParts) >= 2
    /\ \E i \in 1..Len(fed) : fed[i] = <<>>
    /\ \E i \in 1..Len(EmittedParts) : Len(EmittedParts[i].body) = 2

\* C2: every emitted Part except the last has start <= content_length <= end,
\* the last has content_length > 0, and no Part has content_length = 0.
C2_PartSizes ==
    \A i \in 1..Len(EmittedParts) :
        /\ EmittedParts[i].content_length > 0
        /\ i < Len(EmittedParts) =>
              /\ part_size.start <= EmittedParts[i].content_length
              /\ EmittedParts[i].content_length <= part_size.end

\* a finished run whose last part is shorter than the start of the range and
\* follows a part of exactly the end of the range
C2_Witness ==
    /\ SplitFinished
    /\ Len(EmittedParts) >= 2
    /\ EmittedParts[Len(EmittedParts)].content_length < part_size.start
    /\ EmittedParts[Len(EmittedParts) - 1].content_length = part_size.end
    /\ part_size.start < part_size.end

\* C3: the part_number of the i-th emitted Part is i, the final Part produced
\* at source exhaustion included.
C3_PartNumbers ==
    \A i \in 1..Len(EmittedParts) : EmittedParts[i].part_number = i

\* a finished run whose last part came from Inner::finish after two parts
\* from Inner::pop
C3_Witness ==
    /\ SplitFinished
    /\ lastPoll.tag = "Part"
    /\ Len(EmittedParts) = 3
    /\ EmittedParts[3].part_number = 3

(***************************************************************************)
(* Properties of the dispatcher, checked under DispatchSpec.               *)
(***************************************************************************)
\* the number of items the dispatcher has pulled from the input
NPulled == Len(arrived) - Len(queue)

\* the tasks the dispatcher has pulled from the input
PulledTasks == {t \in TaskIds : \E k \in 1..NPulled : arrived[k] = ItemTask(t)}

\* the tasks the input yields before it signals its end
YieldedTasks ==
    {t \in TaskIds : \E k \in 1..Len(arrived) :
        /\ arrived[k] = ItemTask(t)
        /\ \A j \in 1..k : arrived[j] # ItemEnd}

InFlight == {futures[i] : i \in 1..Len(futures)}

\* C4: under a limit L, the tasks pulled from the input and not yet resolved
\* are never more than L: all of them are in the in-flight collection, which
\* never holds more than L tasks, and every pull of the input during a poll
\* happens with fewer than L tasks in flight.
C4_AdmissionLimit ==
    limit # None =>
        /\ Len(futures) <= limit.val
        /\ Cardinality({t \in PulledTasks : cell[t] = None}) <= limit.val
        /\ {t \in PulledTasks : cell[t] = None} \subseteq InFlight
        /\ \A k \in 1..Len(plog) :
              plog[k].ev = "pull" => plog[k].inflight < limit.val

\* a poll under limit 2 that found both slots taken, did not touch the input,
\* and left a task waiting in it
C4_Witness ==
    /\ limit = Some(2)
    /\ Len(futures) = 2
    /\ plog # <<>>
    /\ \A k \in 1..Len(plog) : plog[k].ev = "poll"
    /\ queue # <<>> /\ Head(queue).tag = "Task"
    /\ dresult = Pending

\* the error an event of a poll stands for
EventIsErr(ev) == ev.got.tag = "Err"

\* C5: when dispatch_concurrent returns an error, that error is the first one
\* the poll met, on the input or on a task, and the last thing the poll did:
\* nothing is pulled or polled after it; from then on the dispatcher's state
\* never changes again.
C5_FirstErrorStops ==
    [][/\ dresult'.tag = "Err" =>
             /\ plog' # <<>>
             /\ EventIsErr(plog'[Len(plog')])
             /\ plog'[Len(plog')].got.e = dresult'.e
             /\ \A k \in 1..(Len(plog') - 1) : ~EventIsErr(plog'[k])
       /\ dresult.tag = "Err" =>
             /\ NPulled' = NPulled
             /\ UNCHANGED <<is_done, futures, outputs, started, plog, dresult>>
      ]_vars

\* dispatch_concurrent has failed with the error of one task while another
\* task in flight had failed too, and the input had a task ready
C5_Witness ==
    /\ dresult.tag = "Err"
    /\ \E t, u \in InFlight :
          /\ t # u
          /\ dresult.e = TaskError(t)
          /\ cell[u] = Some(Err(TaskError(u)))
    /\ queue # <<>>

\* C6: when dispatch_concurrent returns Ok, the list holds exactly one entry
\* for each task the input yielded before its end, the output of that task.
C6_OutputsPermutation ==
    dresult.tag = "Ok" =>
        /\ Len(dresult.val) = Cardinality(YieldedTasks)
        /\ \A t \in YieldedTasks :
              Cardinality({i \in 1..Len(dresult.val) :
                              dresult.val[i] = TaskOutput(t)}) = 1
        /\ YieldedTasks = PulledTasks

\* a successful run under limit 2 over three tasks that resolved out of
\* admission order
C6_Witness ==
    /\ dresult.tag = "Ok"
    /\ limit = Some(2)
    /\ Len(dresult.val) = 3
    /\ dresult.val[1] # TaskOutput(1)

\* the input has signalled its end to the dispatcher
InputExhausted == \E k \in 1..NPulled : arrived[k] = ItemEnd

\* C7: dispatch_concurrent returns Ok only when the input has signalled its
\* end and no task is in flight, and it is pending as long as the input has
\* not signalled its end or a task is in flight.
C7_CompletesWhenDrained ==
    /\ is_done <=> InputExhausted
    /\ dresult.tag = "Ok" => (is_done /\ futures = <<>>)
    /\ dresult = Pending => ~(is_done /\ futures = <<>>)

\* a poll that stayed pending after the end of the input because a task was
\* still in flight
C7_Witness ==
    /\ dresult = Pending
    /\ is_done
    /\ futures # <<>>
    /\ plog # <<>>
    /\ outputs # <<>>

(***************************************************************************)
(* Properties of the orchestrator, checked under UploadSpec.               *)
(***************************************************************************)
\* create has succeeded: a multipart session exists on the store
SessionCreated == \E k \in 1..Len(calls) : calls[k].op = "create" /\ calls[k].ok

CreatedUploadId == CallsOf("create")[1].upload_id

\* C8: when the upload has failed after create succeeded, abort has been
\* invoked with the upload_id that create returned.
C8_AbortOnFailure ==
    (uresult.tag = "Err" /\ SessionCreated) =>
        \E k \in 1..Len(calls) :
            calls[k].op = "abort" /\ calls[k].upload_id = CreatedUploadId

\* C9: the error multipart_upload returns is the first failure it observed
\* (of create, of the byte source, of an upload_part, of complete); it
\* returns Ok only when it observed none; and what it has returned is never
\* replaced.
C9_OriginalError ==
    [][/\ uresult'.tag = "Err" => (failures' # <<>> /\ uresult'.e = failures'[1])
       /\ uresult'.tag = "Ok" => failures' = <<>>
       /\ uresult # Pending => uresult' = uresult
      ]_vars

\* the upload has failed on its second part, after the first was uploaded
C9_Witness ==
    /\ uresult = Err(UploadPartError(2))
    /\ Len(CallsOf("upload_part")) = 2
    /\ CallsOf("upload_part")[1].ok

\* C10: create is invoked once, when the run starts; complete and abort are
\* invoked at most once each and never both; and once multipart_upload has
\* returned, no further call is made.
C10_CallDiscipline ==
    [][/\ Len(CallsOf("create"))' = (IF upc' = "create" THEN 0 ELSE 1)
       /\ Len(CallsOf("complete"))' <= 1
       /\ Len(CallsOf("abort"))' <= 1
       /\ Len(CallsOf("complete"))' + Len(CallsOf("abort"))' <= 1
       /\ upc = "done" => calls' = calls
       /\ upc' = "done" <=> uresult' # Pending
      ]_vars

\* a run that has returned after create, two upload_part calls and a
\* complete that failed
C10_Witness ==
    /\ upc = "done"
    /\ uresult = Err(CompleteError)
    /\ Len(CallsOf("create")) = 1
    /\ Len(CallsOf("upload_part")) = 2
    /\ Len(CallsOf("complete")) = 1

\* the entry of the parts list that upload_part call c, once it has succeeded,
\* stands for
CompletedPartOf(c) ==
    [e_tag |-> ETag(c.part_number, c.content_length), part_number |-> c.part_number]

\* C11: the parts list passed to complete has one entry for each part_number
\* 1..N, in ascending order, the i-th being the part_number and the e_tag of
\* the i-th upload_part call; and complete is called only when every
\* upload_part call has succeeded.
C11_CompletePartsList ==
    \A k \in 1..Len(calls) :
        calls[k].op = "complete" =>
            LET ups == CallsOf("upload_part")
            IN  /\ Len(calls[k].parts) = Len(ups)
                /\ \A i \in 1..Len(ups) :
                      /\ ups[i].ok
                      /\ ups[i].part_number = i
                      /\ calls[k].parts[i] = CompletedPartOf(ups[i])
                      /\ calls[k].parts[i].part_number = i

\* complete has been called with a list of three parts
C11_Witness ==
    \E k \in 1..Len(calls) :
        /\ calls[k].op = "complete"
        /\ Len(calls[k].parts) = 3
        /\ calls[k].parts[3].part_number = 3

\* C12: when create fails, multipart_upload returns that error and the failed
\* create is the only call it ever makes; the byte source is not read.
C12_CreateFailure ==
    [][/\ uresult' = Err(CreateError) =>
             /\ calls' = <<[op |-> "create", ok |-> FALSE]>>
             /\ nreads' = 0 /\ srcOff' = 0 /\ chunks' = <<>>
             /\ failures' = <<CreateError>>
             /\ upc' = "done"
       /\ (Len(calls') >= 1 /\ ~calls'[1].ok) => uresult' = Err(CreateError)
       /\ uresult = Err(CreateError) => UNCHANGED upVars
      ]_vars

\* create has failed and multipart_upload has returned its error
C12_Witness ==
    /\ uresult = Err(CreateError)
    /\ upc = "done"
    /\ Len(calls) = 1

\* C13: no upload_part call carries content_length 0; in particular a source
\* of no bytes leads to no upload_part call.
C13_NoEmptyPart ==
    \A k \in 1..Len(calls) :
        calls[k].op = "upload_part" => calls[k].content_length > 0

(***************************************************************************)
(* Further properties of the splitter (SplitSpec) and of the part sizes of *)
(* the orchestrator (UploadSpec).                                          *)
(***************************************************************************)
\* C14: the digest of every emitted Part is the checksum of the bytes of its
\* body, in order, and of nothing else, and its content_length is the total
\* length of the slices of its body.
C14_PartDigest ==
    \A i \in 1..Len(EmittedParts) :
        /\ EmittedParts[i].content_md5 = Md5Digest(Flatten(EmittedParts[i].body))
        /\ EmittedParts[i].content_length = SumLen(EmittedParts[i].body)
        /\ EmittedParts[i].content_length = Len(Flatten(EmittedParts[i].body))

\* three parts have been emitted, the second made of two slices
C14_Witness ==
    /\ Len(EmittedParts) = 3
    /\ Len(EmittedParts[2].body) = 2
    /\ EmittedParts[2].content_md5 # EmittedParts[1].content_md5

\* C15: a source of exactly MIN_PART_SIZE bytes is uploaded as exactly one
\* part, of content_length MIN_PART_SIZE.
C15_ExactlyMin ==
    (uresult.tag = "Ok" /\ srcOff = MIN_PART_SIZE) =>
        /\ Len(CallsOf("upload_part")) = 1
        /\ CallsOf("upload_part")[1].content_length = MIN_PART_SIZE

\* the offsets in the object at which a chunk of the source ends
ChunkEnds == {SumLen(SubSeq(fed, 1, k)) : k \in 1..Len(fed)}

\* the source has ended after 2*start bytes, under a range with end = 2*start
TwoMinRun ==
    /\ SplitFinished
    /\ part_size.end = 2 * part_size.start
    /\ SumLen(fed) = 2 * part_size.start

\* C16 as stated: a source of 2*start bytes under a range with end = 2*start
\* gives exactly one part, of 2*start bytes, whatever the chunk boundaries.
C16_AlwaysOnePart ==
    TwoMinRun =>
        /\ Len(EmittedParts) = 1
        /\ EmittedParts[1].content_length = 2 * part_size.start

\* C16, amended: such a source gives exactly one part of 2*start bytes when no
\* chunk ends at an offset from start to 2*start - 1, and otherwise exactly
\* two parts, the first ending at the first such offset, the second holding
\* the rest.
C16_OneOrTwoParts ==
    TwoMinRun =>
        LET cuts == {x \in ChunkEnds :
                        part_size.start <= x /\ x < 2 * part_size.start}
        IN  IF cuts = {}
            THEN /\ Len(EmittedParts) = 1
                 /\ EmittedParts[1].content_length = 2 * part_size.start
            ELSE /\ Len(EmittedParts) = 2
                 /\ \A x \in cuts : EmittedParts[1].content_length <= x
                 /\ EmittedParts[1].content_length \in cuts
                 /\ EmittedParts[2].content_length
                        = 2 * part_size.start - EmittedParts[1].content_length

\* a source of 4 bytes under the range 2..4 that gave a part of 3 bytes and a
\* part of 1 byte
C16_Witness ==
    /\ TwoMinRun
    /\ part_size.start = 2
    /\ Len(EmittedParts) = 2
    /\ EmittedParts[1].content_length = 3

\* C19: once split() has yielded an error, no Part it yields afterwards holds
\* a byte that the source had yielded before the error.
C19_NoPartAfterError ==
    \A i, j \in 1..Len(yielded) :
        (i < j /\ IsErr(yielded[i]) /\ IsPart(yielded[j])) =>
            \A k \in 1..Len(Flatten(yielded[j].part.body)) :
                Flatten(yielded[j].part.body)[k] > yielded[i].fedBytes

(***************************************************************************)
(* Further properties of the dispatcher, checked under DispatchSpec.       *)
(***************************************************************************)
\* C17: under limit 1 at most one task is in flight, the input is pulled only
\* with no task in flight, a task is pulled or started only when every task
\* before it has resolved and been collected, and the result list is in input
\* order.
C17_Sequential ==
    limit = Some(1) =>
        /\ Len(futures) <= 1
        /\ \A k \in 1..Len(plog) : plog[k].ev = "pull" => plog[k].inflight = 0
        /\ started \subseteq PulledTasks
        /\ \A t \in PulledTasks : \A u \in 1..(t - 1) :
              /\ cell[u] = Some(Ok(TaskOutput(u)))
              /\ \E i \in 1..Len(outputs) : outputs[i] = TaskOutput(u)
        /\ outputs = [i \in 1..Len(outputs) |-> TaskOutput(i)]
        /\ dresult.tag = "Ok" =>
              dresult.val = [i \in 1..Cardinality(YieldedTasks) |-> TaskOutput(i)]

\* a successful run under limit 1 over three tasks: the first two resolved
\* while in flight, the third had resolved before it was pulled
C17_Witness ==
    /\ limit = Some(1)
    /\ dresult.tag = "Ok"
    /\ Len(dresult.val) = 3
    /\ resolved = <<1, 2>>

\* the place of task t among the tasks that resolved while in flight (0: it
\* did not)
ResolvedAt(t) ==
    IF \E k \in 1..Len(resolved) : resolved[k] = t
    THEN CHOOSE k \in 1..Len(resolved) : resolved[k] = t
    ELSE 0

\* the task an output belongs to
TaskOf(v) == CHOOSE t \in TaskIds : TaskOutput(t) = v

\* C20 as stated: of two tasks that were in flight when they resolved, the one
\* that resolved first is earlier in the result list.
C20_ResolutionOrder ==
    \A i, j \in 1..Len(outputs) :
        (/\ i < j
         /\ ResolvedAt(TaskOf(outputs[i])) > 0
         /\ ResolvedAt(TaskOf(outputs[j])) > 0)
            => ResolvedAt(TaskOf(outputs[i])) < ResolvedAt(TaskOf(outputs[j]))

IsPrefix(a, b) == Len(a) <= Len(b) /\ SubSeq(b, 1, Len(a)) = a

\* C20, amended: the result list is in the order in which the dispatcher
\* observes completions.  It only grows at its end; a poll that does not fail
\* adds the output of every task in flight that had resolved before the poll
\* and of no task that had not; so of two tasks in flight, one that resolves
\* before a poll is earlier in the list than one that resolves after it.
C20_ObservationOrder ==
    [][/\ IsPrefix(outputs, outputs')
       /\ (arrived' = arrived /\ cell' = cell /\ dresult'.tag # "Err") =>
             /\ \A t \in InFlight :
                   cell[t] # None =>
                       \E i \in 1..Len(outputs') : outputs'[i] = TaskOutput(t)
             /\ \A t \in TaskIds :
                   cell[t] = None =>
                       \A i \in 1..Len(outputs') : outputs'[i] # TaskOutput(t)
      ]_vars

\* two tasks resolved in flight between two polls, task 2 before task 1, and
\* the next poll put the output of task 1 first; a third task resolved after
\* that poll and came last
C20_Witness ==
    /\ Len(outputs) = 3
    /\ outputs[1] = TaskOutput(1) /\ outputs[2] = TaskOutput(2)
    /\ resolved = <<2, 1, 3>>

(***************************************************************************)
(* Properties of the replayable body, checked under ByteStreamSpec.        *)
(***************************************************************************)
\* what n polls of a fresh body over the chunks v return
Replay(v, n) == [k \in 1..n |-> IF k <= Len(v) THEN Some(Ok(v[k])) ELSE None]

\* the bytes collected from the data a body has returned
Collected(data) ==
    Flatten([k \in 1..Len(data) |-> IF data[k] = None THEN <<>> ELSE data[k].val.val])

\* C18: every body built from one into_byte_stream returns the chunks given
\* to it, in order from the first, and then end-of-stream; what it has
\* returned depends on the number of its own polls only, not on the other
\* bodies; a body read to its end has returned all the bytes.
C18_Replay ==
    \A r \in 1..Len(bs) :
        /\ bs[r].data = Replay(arc_body, Len(bs[r].data))
        /\ bs[r].cursor = Len(bs[r].data)
        /\ Len(bs[r].data) > Len(arc_body) =>
              Collected(bs[r].data) = Flatten(arc_body)

\* the body of the repository's test; the first body read to its end, a clone
\* made after that read to its end too, and a third body one chunk in
C18_Witness ==
    /\ arc_body = <<<<0, 1, 2>>, <<3, 4>>>>
    /\ Len(bs) = 3
    /\ bs[1].data = <<Some(Ok(<<0, 1, 2>>)), Some(Ok(<<3, 4>>)), None>>
    /\ bs[2].data = bs[1].data
    /\ bs[3].data = <<Some(Ok(<<0, 1, 2>>))>>

(***************************************************************************)
(* Re-admission and progress of the dispatcher, checked under DispatchSpec *)
(* and DispatchLiveSpec.                                                   *)
(***************************************************************************)
\* the step is a poll of the dispatcher that returned Pending
PollReturnsPending ==
    /\ dresult = Pending
    /\ arrived' = arrived
    /\ cell' = cell
    /\ dresult' = Pending

\* event k of the last poll is the completion of a task
IsCompletion(log, k) == log[k].ev = "poll" /\ log[k].got.tag = "Ok"

\* event k of the last poll is the admission of a task
IsAdmission(log, k) == log[k].ev = "pull" /\ log[k].got.tag = "Task"

\* C21: a poll that observes a task completion and returns Pending has, after
\* that completion and within the same poll, tried the input again (unless
\* the input had ended), polled every task it admitted, and stopped only with
\* no slot free or nothing ready in the input.
C21_ReadmitsInSamePoll ==
    [][(PollReturnsPending /\ \E k \in 1..Len(plog') : IsCompletion(plog', k)) =>
          /\ \A k \in 1..Len(plog') :
                IsCompletion(plog', k) =>
                    \/ is_done'
                    \/ \E j \in (k + 1)..Len(plog') : plog'[j].ev = "pull"
          /\ \A j \in 1..Len(plog') :
                IsAdmission(plog', j) =>
                    \E m \in (j + 1)..Len(plog') :
                        plog'[m].ev = "poll" /\ plog'[m].task = plog'[j].got.id
          /\ \/ ~has_slot(limit, Len(futures'))
             \/ queue' = <<>>
             \/ is_done'
      ]_vars

\* a poll under a limit saw a task complete, then admitted the next task with
\* the freed slot and polled it, and returned Pending with an item still in
\* the input that no slot was free for
C21_Witness ==
    /\ dresult = Pending
    /\ limit # None
    /\ Len(futures) = limit.val
    /\ queue # <<>>
    /\ \E k, j, m \in 1..Len(plog) :
          /\ k < j /\ j < m
          /\ IsCompletion(plog, k)
          /\ IsAdmission(plog, j)
          /\ plog[m].ev = "poll" /\ plog[m].task = plog[j].got.id

\* the input has signalled its end: the end is in the input, ready or pulled
EndArrived == \E k \in 1..Len(arrived) : arrived[k] = ItemEnd

\* C22: once the input has signalled its end, with tasks that resolve and a
\* dispatcher that is polled again after each event, dispatch_concurrent
\* returns; and no poll returns Pending with the input done and no task in
\* flight, or with a slot free and an item of the input ready and untried.
C22_Progress ==
    /\ EndArrived ~> (dresult # Pending)
    /\ [][PollReturnsPending =>
             /\ ~(is_done' /\ futures' = <<>>)
             /\ ~(has_slot(limit, Len(futures')) /\ ~is_done' /\ queue' # <<>>)
         ]_vars

\* the input ended after three tasks, two of which resolved while in flight,
\* and the dispatcher, polled again, has returned their outputs
C22_Witness ==
    /\ EndArrived
    /\ limit = None
    /\ dresult.tag = "Ok"
    /\ Len(dresult.val) = 3
    /\ Len(resolved) = 2

(***************************************************************************)
(* The end of the splitter's output, checked under SplitSpec.              *)
(***************************************************************************)
\* C23: the poll in which split() sees the end of the source yields its final
\* item, the last Part or end-of-stream; every poll after it yields
\* end-of-stream, emits nothing and does not poll the byte source.
C23_EndIsFinal ==
    [][/\ (inner # None /\ inner' = None) => lastPoll'.tag \in {"Part", "None"}
       /\ inner = None =>
             /\ inner' = None
             /\ lastPoll'.tag = "None"
             /\ yielded' = yielded
             /\ body' = body
             /\ bodyPolls' = bodyPolls
             /\ srcBytes' = srcBytes
      ]_vars

\* the source ended with bytes buffered, so the final item was a Part shorter
\* than the range's start; the stream was polled again and answered
\* end-of-stream, leaving alone a source that had a chunk left to give
C23_Witness ==
    /\ inner = None
    /\ lastPoll.tag = "None"
    /\ yielded # <<>>
    /\ IsPart(yielded[Len(yielded)])
    /\ yielded[Len(yielded)].part.content_length < part_size.start
    /\ body # <<>>
    /\ Head(body).tag = "Chunk"

=============================================================================
